---- MODULE Spec2Model ----
(***************************************************************************)
(* A model of scripts/steps_chart.py: driver() checks the peak flags and   *)
(* calls analyze() on each input file in turn; analyze() extracts the      *)
(* seven labelled fields, validates them, groups consecutive records by    *)
(* step count, derives the metric columns, formats and writes a CSV.       *)
(*                                                                         *)
(* A file is represented by the seven match sequences that re.finditer     *)
(* yields for the patterns of _columns (the captured numbers, in order of  *)
(* appearance).  A table is the OrderedDict of analyze(): a sequence of    *)
(* <<name, column>> pairs in insertion order.  A number is a record        *)
(* [kind, num, den, root]: kind is "int", "float" or "str" (a float        *)
(* rendered by '%e'), the value is num/den, or its square root when root.  *)
(* An optional value (None or x) is the sequence << >> or <<x>>.           *)
(* input and csv record, for the running call of analyze, the file it read *)
(* and the header and rows it handed to the csv writer; opened and written *)
(* list the input files read and the output files opened for writing.      *)
(***************************************************************************)
EXTENDS Integers, Sequences, FiniteSets, TLC

VARIABLES peak_flops, peak_bytes, nodes, cores,
          pc, k, table, input, err, opened, written, csv

vars == <<peak_flops, peak_bytes, nodes, cores,
          pc, k, table, input, err, opened, written, csv>>

-----------------------------------------------------------------------------
(* Bounds of the model. *)

\* number of input files given to driver
NumFiles == 2
\* records per file in the fixtures that vary steps
MaxRuns == 5
\* records per file in the fixtures that vary steps, width and tasks
MaxGeom == 2
\* records per file in the fixtures that vary steps, flops and bytes
MaxUnif == 3
\* matches of a field in the fixtures in which some fields have no match
MaxLen == 1

Vals == {1, 2}
TaskVals == {1, 2, 4}
None == << >>
PeakVals == {None, <<0>>, <<2>>}
NodesVals == {1, 2}
CoresVals == {4}

-----------------------------------------------------------------------------
(* Numbers. *)

IntV(v) == [kind |-> "int", num |-> v, den |-> 1, root |-> FALSE]
FloatV(n, d) == [kind |-> "float", num |-> n, den |-> d, root |-> FALSE]
IsFloat(x) == x.kind = "float"

\* '%e' % x
FormatE(x) == [x EXCEPT !.kind = "str"]

\* the truth value of an optional number: None and 0 are false
Truthy(p) == p # None /\ p[1] # 0

-----------------------------------------------------------------------------
(* The ordered table. *)

_columns == <<"elapsed", "iterations", "steps", "tasks", "flops", "bytes", "width">>

ColumnType(name) == IF name = "elapsed" THEN "float" ELSE "int"

Keys(t) == [i \in 1..Len(t) |-> t[i][1]]
Values(t) == [i \in 1..Len(t) |-> t[i][2]]
Has(t, name) == \E i \in 1..Len(t) : t[i][1] = name
Col(t, name) == t[CHOOSE i \in 1..Len(t) : t[i][1] = name][2]

\* a variant that moves a replaced column to the end
PutMoveToEnd(t, name, col) ==
    Append(SelectSeq(t, LAMBDA p : p[1] # name), <<name, col>>)

\* table[name] = col: an existing key keeps its position, a new key is appended
Put(t, name, col) ==
    IF Has(t, name)
    THEN [i \in 1..Len(t) |-> IF t[i][1] = name THEN <<name, col>> ELSE t[i]]
    ELSE Append(t, <<name, col>>)

Convert(name, v) == IF ColumnType(name) = "float" THEN FloatV(v, 1) ELSE IntV(v)

\* the table built from the match sequences of a file
Extract(f) ==
    [i \in 1..Len(_columns) |->
        <<_columns[i],
          [j \in 1..Len(f[_columns[i]]) |-> Convert(_columns[i], f[_columns[i]][j])]>>]

-----------------------------------------------------------------------------
(* same and group_by. *)

Same(values) == \A i \in 1..Len(values) : values[i] = values[1]

Min(a, b) == IF a < b THEN a ELSE b

Zip2(a, b) == [i \in 1..Min(Len(a), Len(b)) |-> <<a[i], b[i]>>]

RECURSIVE GroupByLoop(_, _, _, _, _)
GroupByLoop(kv, i, last_key, last_group, out) ==
    IF i > Len(kv)
    THEN IF last_group # None THEN Append(out, <<last_key[1], last_group[1]>>) ELSE out
    ELSE LET key == kv[i][1]
             value == kv[i][2]
             differs == last_key # <<key>>
             out2 == IF differs /\ last_group # None
                     THEN Append(out, <<last_key[1], last_group[1]>>)
                     ELSE out
             group == IF differs THEN << >> ELSE last_group[1]
         IN  GroupByLoop(kv, i + 1, <<key>>, <<Append(group, value)>>, out2)

\* a variant that merges every record of one key into the key's first group
RECURSIVE GroupByKeyLoop(_, _, _)
GroupByKeyLoop(kv, i, out) ==
    IF i > Len(kv) THEN out
    ELSE LET key == kv[i][1]
             value == kv[i][2]
         IN  IF \E g \in 1..Len(out) : out[g][1] = key
             THEN GroupByKeyLoop(kv, i + 1,
                     [g \in 1..Len(out) |->
                         IF out[g][1] = key THEN <<key, Append(out[g][2], value)>>
                         ELSE out[g]])
             ELSE GroupByKeyLoop(kv, i + 1, Append(out, <<key, <<value>> >>))

GroupByKey(keys, values) == GroupByKeyLoop(Zip2(keys, values), 1, << >>)

\* the sequence of (key, group) pairs the generator yields
GroupBy(keys, values) == GroupByLoop(Zip2(keys, values), 1, None, None, << >>)

-----------------------------------------------------------------------------
(* The steps of analyze. *)

\* line 71: every column has the same number of matches
LengthsAgree(t) == Same([i \in 1..Len(t) |-> Len(t[i][2])])

\* line 72
IterationsConstant(t) == Same(Col(t, "iterations"))

\* a variant that does not check the width
WidthUnchecked(t) == TRUE

\* line 73
WidthConstant(t) == Same(Col(t, "width"))

\* a variant that does not check the task count
TasksUnchecked(t) == TRUE

\* line 74: tasks == steps * width, element by element
TasksMatch(t) ==
    LET tasks == Col(t, "tasks")
        steps == Col(t, "steps")
        width == Col(t, "width")
    IN  \A i \in 1..Len(tasks) : tasks[i].num = steps[i].num * width[i].num

\* the first failing assertion of lines 71-74, or "" when all pass
ValidateError(t) ==
    IF ~LengthsAgree(t) THEN "assert_lengths"
    ELSE IF ~IterationsConstant(t) THEN "assert_iterations"
    ELSE IF ~WidthConstant(t) THEN "assert_width"
    ELSE IF ~TasksMatch(t) THEN "assert_tasks"
    ELSE ""

RECURSIVE SumNum(_, _)
SumNum(xs, i) == IF i > Len(xs) THEN 0 ELSE xs[i].num + SumNum(xs, i + 1)

RECURSIVE SumSq(_, _)
SumSq(xs, i) == IF i > Len(xs) THEN 0 ELSE xs[i].num * xs[i].num + SumSq(xs, i + 1)

\* numpy.mean of parsed elapsed values (each of denominator 1)
Mean(xs) == FloatV(SumNum(xs, 1), Len(xs))

\* numpy.std: the population standard deviation, sqrt(mean(x^2) - mean(x)^2)
Std(xs) ==
    [kind |-> "float",
     num |-> Len(xs) * SumSq(xs, 1) - SumNum(xs, 1) * SumNum(xs, 1),
     den |-> Len(xs) * Len(xs),
     root |-> TRUE]

Nth(vs, j) == [i \in 1..Len(vs) |-> vs[i][j]]

\* the groups of line 80: keys are steps, values are (elapsed, tasks, flops, bytes)
Groups(t) ==
    LET elapsed == Col(t, "elapsed")
        tasks == Col(t, "tasks")
        flops == Col(t, "flops")
        bytes == Col(t, "bytes")
    IN  GroupBy(Col(t, "steps"),
                [i \in 1..Min(Min(Len(elapsed), Len(tasks)), Min(Len(flops), Len(bytes))) |->
                    <<elapsed[i], tasks[i], flops[i], bytes[i]>>])

\* the tuple of line 79 for one group
GroupRow(g) ==
    LET elapsed == Nth(g[2], 1)
        tasks == Nth(g[2], 2)
        flops == Nth(g[2], 3)
        bytes == Nth(g[2], 4)
    IN  [steps |-> g[1],
         elapsed |-> Mean(elapsed),
         std |-> Std(elapsed),
         reps |-> IntV(Len(elapsed)),
         tasks |-> tasks[1],
         flops |-> flops[1],
         bytes |-> bytes[1],
         same_tasks |-> Same(tasks),
         same_flops |-> Same(flops),
         same_bytes |-> Same(bytes)]

GroupRows(t) ==
    LET groups == Groups(t)
    IN  [i \in 1..Len(groups) |-> GroupRow(groups[i])]

Field(rows, name) == [i \in 1..Len(rows) |-> rows[i][name]]

\* the assignments of line 77, left to right
Aggregated(t, rows) ==
    LET t1 == Put(t, "steps", Field(rows, "steps"))
        t2 == Put(t1, "elapsed", Field(rows, "elapsed"))
        t3 == Put(t2, "std", Field(rows, "std"))
        t4 == Put(t3, "reps", Field(rows, "reps"))
        t5 == Put(t4, "tasks", Field(rows, "tasks"))
        t6 == Put(t5, "flops", Field(rows, "flops"))
    IN  Put(t6, "bytes", Field(rows, "bytes"))

\* a variant without the assertion on bytes
UniformErrorNoBytes(rows) ==
    IF \E i \in 1..Len(rows) : ~rows[i].same_tasks THEN "assert_same_tasks"
    ELSE IF \E i \in 1..Len(rows) : ~rows[i].same_flops THEN "assert_same_flops"
    ELSE ""

\* the first failing assertion of lines 83-85, or "" when all pass
UniformError(rows) ==
    IF \E i \in 1..Len(rows) : ~rows[i].same_tasks THEN "assert_same_tasks"
    ELSE IF \E i \in 1..Len(rows) : ~rows[i].same_flops THEN "assert_same_flops"
    ELSE IF \E i \in 1..Len(rows) : ~rows[i].same_bytes THEN "assert_same_bytes"
    ELSE ""

\* a variant that leaves the column as it is
ResizeNot(a, m) == a

\* numpy.resize(a, (m,)) of a non-empty a: the first m values, repeating a cyclically
Resize(a, m) == [i \in 1..m |-> a[((i - 1) % Len(a)) + 1]]

\* lines 87-88
Broadcast(t) ==
    LET m == Len(Col(t, "steps"))
        t1 == Put(t, "iterations", Resize(Col(t, "iterations"), m))
    IN  Put(t1, "width", Resize(Col(t, "width"), m))

\* elapsed / tasks * nodes * cores * 1000, element by element
TimePerTask(t) ==
    LET elapsed == Col(t, "elapsed")
        tasks == Col(t, "tasks")
    IN  [i \in 1..Min(Len(elapsed), Len(tasks)) |->
            FloatV(elapsed[i].num * nodes * cores * 1000, elapsed[i].den * tasks[i].num)]

\* (c / elapsed / nodes) / peak, element by element, for c the flops or bytes column
Efficiency(t, name, peak) ==
    LET c == Col(t, name)
        elapsed == Col(t, "elapsed")
    IN  [i \in 1..Min(Len(c), Len(elapsed)) |->
            FloatV(c[i].num * elapsed[i].den, elapsed[i].num * nodes * peak)]

\* lines 54-61: the derived columns, by name, in definition order
Compute ==
    IF Truthy(peak_flops) THEN <<"time_per_task", "efficiency_flops">>
    ELSE IF Truthy(peak_bytes) THEN <<"time_per_task", "efficiency_bytes">>
    ELSE <<"time_per_task">>

RECURSIVE Derive(_, _)
\* lines 91-92
Derive(t, i) ==
    IF i > Len(Compute) THEN t
    ELSE LET f == Compute[i]
         IN  Derive(IF f = "time_per_task" THEN Put(t, "time_per_task", TimePerTask(t))
                    ELSE IF f = "efficiency_flops"
                         THEN Put(t, "efficiency", Efficiency(t, "flops", peak_flops[1]))
                         ELSE Put(t, "efficiency", Efficiency(t, "bytes", peak_bytes[1])),
                    i + 1)

RECURSIVE Format(_, _)
\* lines 95-97
Format(t, i) ==
    IF i > Len(t) THEN t
    ELSE LET c == t[i][2]
         IN  Format(IF \E j \in 1..Len(c) : IsFloat(c[j])
                    THEN Put(t, t[i][1], [j \in 1..Len(c) |-> FormatE(c[j])])
                    ELSE t,
                    i + 1)

RECURSIVE MinLen(_, _)
MinLen(cols, i) ==
    IF i = Len(cols) THEN Len(cols[i]) ELSE Min(Len(cols[i]), MinLen(cols, i + 1))

\* zip(*list(table.values()))
ZipRows(t) ==
    [r \in 1..MinLen(Values(t), 1) |-> [c \in 1..Len(t) |-> t[c][2][r]]]

-----------------------------------------------------------------------------
(* The input files the model draws from. *)

Const(n, v) == [i \in 1..n |-> v]

Fixture(e, it, s, t, fl, by, w) ==
    [elapsed |-> e, iterations |-> it, steps |-> s, tasks |-> t,
     flops |-> fl, bytes |-> by, width |-> w]

\* consistent files whose records vary in steps, with equal or distinct elapsed
FixRuns ==
    UNION { { Fixture(e, Const(n, 1), s, [i \in 1..n |-> s[i] * w],
                      Const(n, 1), Const(n, 1), Const(n, w)) :
                e \in {Const(n, 1), [i \in 1..n |-> i]}, s \in [1..n -> Vals], w \in Vals } :
            n \in 0..MaxRuns }

\* files whose records vary in steps, width and tasks
FixGeom ==
    UNION { { Fixture(Const(n, 1), Const(n, 1), s, t, Const(n, 1), Const(n, 1), w) :
                s \in [1..n -> Vals], t \in [1..n -> TaskVals], w \in [1..n -> Vals] } :
            n \in 0..MaxGeom }

\* files whose records vary in steps and in flops, or in steps and in bytes
FixUnif ==
    UNION { { Fixture([i \in 1..n |-> i], Const(n, 1), s, s, fl, Const(n, 1), Const(n, 1)) :
                s \in [1..n -> Vals], fl \in [1..n -> Vals] }
            \cup
            { Fixture([i \in 1..n |-> i], Const(n, 1), s, s, Const(n, 1), by, Const(n, 1)) :
                s \in [1..n -> Vals], by \in [1..n -> Vals] } :
            n \in 0..MaxUnif }

\* files whose records vary in iterations
FixIter ==
    UNION { { Fixture(Const(n, 1), it, Const(n, 1), Const(n, 1),
                      Const(n, 1), Const(n, 1), Const(n, 1)) :
                it \in [1..n -> Vals] } :
            n \in 0..MaxUnif }

\* files in which each field has either no match or MaxLen matches
FixLen ==
    { [f \in {"elapsed", "iterations", "steps", "tasks", "flops", "bytes", "width"} |->
          Const(l[f], 1)] :
        l \in [{"elapsed", "iterations", "steps", "tasks", "flops", "bytes", "width"}
                   -> {0, MaxLen}] }

Fixtures == FixRuns \cup FixGeom \cup FixUnif \cup FixIter \cup FixLen

-----------------------------------------------------------------------------
(* The state machine. *)

Init ==
    /\ peak_flops \in PeakVals
    /\ peak_bytes \in PeakVals
    /\ nodes \in NodesVals
    /\ cores \in CoresVals
    /\ pc = "driver"
    /\ k = 1
    /\ table = << >>
    /\ input = None
    /\ err = ""
    /\ opened = << >>
    /\ written = << >>
    /\ csv = None

\* a variant that tests the flags' truth values
BothPeaksTruthy(pf, pb) == Truthy(pf) /\ Truthy(pb)

\* line 106
BothPeaks(pf, pb) == pf # None /\ pb # None

\* a variant that skips the failing file and goes on with the next
RaiseSkip(e) ==
    /\ pc' = "loop"
    /\ k' = k + 1
    /\ err' = e

\* an exception leaves analyze and driver: nothing catches it
Raise(e) ==
    /\ pc' = "raised"
    /\ err' = e
    /\ k' = k

\* lines 106-107
DriverCheck ==
    /\ pc = "driver"
    /\ IF BothPeaks(peak_flops, peak_bytes)
       THEN pc' = "raised" /\ err' = "config"
       ELSE pc' = "loop" /\ err' = err
    /\ UNCHANGED <<peak_flops, peak_bytes, nodes, cores, k, table, input,
                   opened, written, csv>>

\* line 108 with a next file, line 109, lines 64-68
Parse ==
    /\ pc = "loop"
    /\ k <= NumFiles
    /\ \E f \in Fixtures :
          /\ input' = <<f>>
          /\ table' = Extract(f)
    /\ opened' = Append(opened, k)
    /\ pc' = "parsed"
    /\ UNCHANGED <<peak_flops, peak_bytes, nodes, cores, k, err, written, csv>>

\* lines 71-74
Validate ==
    /\ pc = "parsed"
    /\ LET e == ValidateError(table)
       IN  IF e # ""
           THEN Raise(e)
           ELSE pc' = "validated" /\ err' = err /\ k' = k
    /\ UNCHANGED <<peak_flops, peak_bytes, nodes, cores, table, input,
                   opened, written, csv>>

\* lines 77-85: with no group the unpacking of line 77 raises ValueError
Aggregate ==
    /\ pc = "validated"
    /\ LET rows == GroupRows(table)
       IN  IF Len(rows) = 0
           THEN Raise("unpack") /\ table' = table
           ELSE /\ table' = Aggregated(table, rows)
                /\ IF UniformError(rows) # ""
                   THEN Raise(UniformError(rows))
                   ELSE pc' = "grouped" /\ err' = err /\ k' = k
    /\ UNCHANGED <<peak_flops, peak_bytes, nodes, cores, input,
                   opened, written, csv>>

\* lines 87-97
Finish ==
    /\ pc = "grouped"
    /\ table' = Format(Derive(Broadcast(table), 1), 1)
    /\ pc' = "formatted"
    /\ UNCHANGED <<peak_flops, peak_bytes, nodes, cores, k, input, err,
                   opened, written, csv>>

\* lines 99-103
Write ==
    /\ pc = "formatted"
    /\ written' = Append(written, k)
    /\ csv' = <<[header |-> Keys(table), rows |-> ZipRows(table)]>>
    /\ pc' = "written"
    /\ UNCHANGED <<peak_flops, peak_bytes, nodes, cores, k, table, input, err, opened>>

\* analyze returns to the loop of driver: its locals are dropped
NextFile ==
    /\ pc = "written"
    /\ table' = << >>
    /\ input' = None
    /\ csv' = None
    /\ k' = k + 1
    /\ pc' = "loop"
    /\ UNCHANGED <<peak_flops, peak_bytes, nodes, cores, err, opened, written>>

\* line 108 with no file left
Return ==
    /\ pc = "loop"
    /\ k > NumFiles
    /\ pc' = "done"
    /\ UNCHANGED <<peak_flops, peak_bytes, nodes, cores, k, table, input, err,
                   opened, written, csv>>

Next ==
    \/ DriverCheck
    \/ Parse
    \/ Validate
    \/ Aggregate
    \/ Finish
    \/ Write
    \/ NextFile
    \/ Return

Spec == Init /\ [][Next]_vars

-----------------------------------------------------------------------------
(* What the properties speak of, stated on the file read and the CSV       *)
(* written rather than on the operators above.                             *)

\* the file the running call of analyze read, and its index in the inputs
In == input[1]
Cur == opened[Len(opened)]

Range(q) == {q[i] : i \in 1..Len(q)}
Nums(c) == [i \in 1..Len(c) |-> c[i].num]
Upto(n) == [i \in 1..n |-> i]

\* all seven fields occur the same number of times
SameCounts(f) == \A a \in DOMAIN f, b \in DOMAIN f : Len(f[a]) = Len(f[b])

\* the positions at which a maximal run of equal steps begins
RunStarts(s) == {i \in 1..Len(s) : i = 1 \/ s[i] # s[i - 1]}
NumRuns(s) == Cardinality(RunStarts(s))
\* the number of the run that position i lies in
RunOf(s, i) == Cardinality({x \in RunStarts(s) : x <= i})
RunStart(s, j) == CHOOSE i \in RunStarts(s) : RunOf(s, i) = j
RunKeys(s) == [j \in 1..NumRuns(s) |-> s[RunStart(s, j)]]
RunLens(s) == [j \in 1..NumRuns(s) |-> Cardinality({i \in 1..Len(s) : RunOf(s, i) = j})]

\* column c is the same on all the records of every run of equal steps: it
\* does not change from a record to the next one of the same steps
UniformInRuns(f, c) ==
    \A i \in 2..Len(f.steps) : f.steps[i] = f.steps[i - 1] => f[c][i] = f[c][i - 1]

IterationsVary(f) == \E i \in 1..Len(f.iterations) : f.iterations[i] # f.iterations[1]
WidthVaries(f) == \E i \in 1..Len(f.width) : f.width[i] # f.width[1]
TasksMismatch(f) ==
    \E i \in 1..Len(f.tasks) :
        i <= Len(f.steps) /\ i <= Len(f.width) /\ f.tasks[i] # f.steps[i] * f.width[i]

\* one of the four conditions of the validator is violated
ViolatesValidator(f) ==
    ~SameCounts(f) \/ IterationsVary(f) \/ WidthVaries(f) \/ TasksMismatch(f)

\* every validation and per-group uniformity check is satisfied
Consistent(f) ==
    /\ ~ViolatesValidator(f)
    /\ UniformInRuns(f, "tasks")
    /\ UniformInRuns(f, "flops")
    /\ UniformInRuns(f, "bytes")

Header == csv[1].header
Rows == csv[1].rows
Count(q, x) == Cardinality({i \in 1..Len(q) : q[i] = x})
CsvCol(name) ==
    LET c == CHOOSE i \in 1..Len(Header) : Header[i] = name
    IN  [r \in 1..Len(Rows) |-> Rows[r][c]]

RECURSIVE Sum(_, _)
Sum(q, i) == IF i > Len(q) THEN 0 ELSE q[i] + Sum(q, i + 1)

ValidatorErrors == {"assert_lengths", "assert_iterations", "assert_width", "assert_tasks"}
UniformErrors == {"assert_same_tasks", "assert_same_flops", "assert_same_bytes"}

\* the running call of analyze has ended, with a CSV or with an exception
AnalyzeEnded == pc = "written" \/ (pc = "raised" /\ err # "config")

-----------------------------------------------------------------------------
(* The properties. *)

\* C1: for every file in which the seven fields occur equally often (n >= 0
\* times) and every validation and uniformity check is satisfied, analyze
\* writes a CSV with one data row per maximal run of equal steps, the rows'
\* steps in the order in which the runs appear.
C1_OneRowPerRun ==
    (input # None /\ AnalyzeEnded /\ Consistent(In)) =>
        /\ pc = "written"
        /\ Len(Rows) = NumRuns(In.steps)
        /\ Nums(CsvCol("steps")) = RunKeys(In.steps)

\* C2: group_by starts a new group exactly where the steps value differs from
\* the preceding record's: the groups are the maximal runs of equal steps, so
\* equal steps separated by another value are not merged, and no two
\* consecutive groups have the same key.
C2_AdjacencyGrouping ==
    (pc = "grouped" \/ (pc = "raised" /\ err \in UniformErrors)) =>
        LET keys == Nums(Col(table, "steps"))
            reps == Nums(Col(table, "reps"))
        IN  /\ keys = RunKeys(In.steps)
            /\ reps = RunLens(In.steps)
            /\ \A i \in 1..(Len(keys) - 1) : keys[i] # keys[i + 1]

C2_Witness ==
    /\ pc = "grouped"
    /\ In.steps = <<1, 1, 2, 1>>
    /\ Nums(Col(table, "steps")) = <<1, 2, 1>>
    /\ Nums(Col(table, "reps")) = <<2, 1, 1>>

\* C3: a file that violates one of the four validator conditions (unequal
\* match counts, iterations not constant, width not constant, some record
\* with tasks # steps * width) is rejected by an assertion of the validator
\* and no output file is opened for it.
C3_ValidatorRejects ==
    (input # None /\ ViolatesValidator(In)) =>
        /\ pc \in {"parsed", "raised"}
        /\ pc = "raised" => err \in ValidatorErrors
        /\ Cur \notin Range(written)
        /\ csv = None

C3_Witness ==
    /\ pc = "raised"
    /\ err = "assert_tasks"
    /\ SameCounts(In) /\ ~IterationsVary(In) /\ ~WidthVaries(In)
    /\ TasksMismatch(In)
    /\ Cur \notin Range(written)

\* C4: with both peak_flops and peak_bytes supplied (zero included) driver
\* raises the configuration error before any input is read or output written.
C4_BothPeaksRaise ==
    (peak_flops # None /\ peak_bytes # None) =>
        /\ pc \in {"driver", "raised"}
        /\ pc = "raised" => err = "config"
        /\ opened = << >>
        /\ written = << >>

C4_Witness ==
    /\ pc = "raised"
    /\ err = "config"
    /\ peak_flops = <<0>>
    /\ peak_bytes = <<0>>

\* C5: whenever a peak compute bandwidth is supplied (any value, no memory
\* peak) the CSV has exactly one efficiency column, (flops / elapsed / nodes)
\* / peak_flops; whenever a peak memory bandwidth is supplied (any value, no
\* compute peak) it has exactly one, (bytes / elapsed / nodes) / peak_bytes;
\* with neither there is none; time_per_task is always there.
C5_EfficiencyWhenSupplied ==
    pc = "written" =>
        /\ Count(Header, "time_per_task") = 1
        /\ Count(Header, "efficiency") =
              IF peak_flops # None \/ peak_bytes # None THEN 1 ELSE 0
        /\ (peak_flops # None /\ peak_bytes = None) =>
              \A r \in 1..Len(Rows) :
                  CsvCol("efficiency")[r].num
                      * (CsvCol("elapsed")[r].num * nodes * peak_flops[1])
                  = CsvCol("efficiency")[r].den
                      * (CsvCol("flops")[r].num * CsvCol("elapsed")[r].den)
        /\ (peak_bytes # None /\ peak_flops = None) =>
              \A r \in 1..Len(Rows) :
                  CsvCol("efficiency")[r].num
                      * (CsvCol("elapsed")[r].num * nodes * peak_bytes[1])
                  = CsvCol("efficiency")[r].den
                      * (CsvCol("bytes")[r].num * CsvCol("elapsed")[r].den)

\* C6: a file with a run of equal steps whose records differ in tasks, flops
\* or bytes is rejected and no CSV is written for it; in a written CSV each
\* row's tasks, flops and bytes are those of every record of its group.
C6_GroupUniform ==
    input # None =>
        /\ (SameCounts(In) /\ ~(UniformInRuns(In, "tasks") /\ UniformInRuns(In, "flops")
                                /\ UniformInRuns(In, "bytes"))) =>
              /\ pc \in {"parsed", "validated", "raised"}
              /\ Cur \notin Range(written)
              /\ csv = None
        /\ pc = "written" =>
              LET tasks == CsvCol("tasks")
                  flops == CsvCol("flops")
                  bytes == CsvCol("bytes")
              IN  \A i \in 1..Len(In.steps) :
                      LET g == RunOf(In.steps, i)
                      IN  /\ tasks[g].num = In.tasks[i]
                          /\ flops[g].num = In.flops[i]
                          /\ bytes[g].num = In.bytes[i]

C6_Witness ==
    /\ pc = "raised"
    /\ err = "assert_same_bytes"
    /\ In.steps = <<2, 2, 2>>
    /\ In.bytes = <<1, 1, 2>>
    /\ csv = None

\* C7: in a written CSV each row's reps is the number of records of its group,
\* at least 1, the reps add up to the number of records of the file, and every
\* column of the table has one value per group.
C7_RepsAndColumns ==
    pc = "written" =>
        /\ LET reps == Nums(CsvCol("reps"))
           IN  /\ reps = RunLens(In.steps)
               /\ \A r \in 1..Len(reps) : reps[r] >= 1
               /\ Sum(reps, 1) = Len(In.steps)
        /\ Len(Rows) = NumRuns(In.steps)
        /\ \A c \in 1..Len(table) : Len(table[c][2]) = NumRuns(In.steps)
        /\ \A r \in 1..Len(Rows) : Len(Rows[r]) = Len(Header)

C7_Witness ==
    /\ pc = "written"
    /\ In.steps = <<1, 2, 2, 2>>
    /\ Nums(CsvCol("reps")) = <<1, 3>>
    /\ Len(CsvCol("iterations")) = 2

\* C8: the header of a written CSV is elapsed, iterations, steps, tasks, flops,
\* bytes, width, std, reps, time_per_task, followed by efficiency exactly when
\* an efficiency formula is selected: replacing a column keeps its position.
C8_HeaderOrder ==
    pc = "written" =>
        Header = <<"elapsed", "iterations", "steps", "tasks", "flops", "bytes", "width",
                   "std", "reps", "time_per_task">>
                 \o (IF Truthy(peak_flops) \/ Truthy(peak_bytes)
                     THEN <<"efficiency">> ELSE << >>)

C8_Witness ==
    /\ pc = "written"
    /\ Len(Header) = 11
    /\ Header[11] = "efficiency"
    /\ CsvCol("elapsed")[1].kind = "str"

\* C9: the files are read in input order and a CSV is written for each before
\* the next is read; when the k-th file fails the exception leaves driver with
\* CSVs written for exactly the k-1 files before it and nothing after it read
\* or written; when no file fails there is one CSV per input, in input order.
C9_StopAtFirstFailure ==
    /\ opened = Upto(Len(opened))
    /\ written = Upto(Len(written))
    /\ Len(written) <= Len(opened)
    /\ Len(opened) <= Len(written) + 1
    /\ (pc = "raised" /\ err # "config") =>
          /\ written = Upto(Cur - 1)
          /\ ~ENABLED Next
    /\ pc = "done" => written = Upto(NumFiles) /\ opened = Upto(NumFiles)

C9_Witness ==
    /\ pc = "raised"
    /\ err \in ValidatorErrors \cup UniformErrors
    /\ opened = <<1, 2>>
    /\ written = <<1>>

\* C10: once the validator has passed, the records of every run of equal steps
\* have the same tasks, so the assertion on same_tasks never fails: an
\* assertion that fails after validation is the one on flops or on bytes.
C10_TasksAssertNeverFails ==
    /\ err # "assert_same_tasks"
    /\ pc = "validated" => UniformInRuns(In, "tasks")
    /\ (pc = "raised" /\ err \in UniformErrors) =>
          err \in {"assert_same_flops", "assert_same_bytes"}

C10_Witness ==
    /\ pc = "validated"
    /\ Len(In.steps) >= 2
    /\ In.steps[1] = In.steps[2]
    /\ In.width[1] = 2
    /\ In.tasks[1] = 2 * In.steps[1]

====
